---- MODULE Spec2Model ----
(***************************************************************************)
(* KrknDB: the key codec, the store lifecycle (New / Get / Close), the     *)
(* write path, the four queries, and the counter recount (PerformRecount / *)
(* RecountHashType / setCount).                                            *)
(*                                                                         *)
(* Seven specifications share the variables:                               *)
(*   SpecCodec    the pure key-codec functions applied to bounded inputs   *)
(*   SpecOpen     New / Get / Close called by concurrent goroutines        *)
(*   SpecKV       Store and the four queries, each query as a whole        *)
(*   SpecSeq      the query sequences consumed step by step                *)
(*   SpecRecount  recounts called one after the other, with collaborator   *)
(*                failures, on a store whose counters may be out of step   *)
(*   SpecSync     the same calls on a store whose counters start in step   *)
(*   Spec         PerformRecount / RecountHashType / Store / Close called  *)
(*                by concurrent goroutines on an opened store              *)
(***************************************************************************)
EXTENDS Integers, Sequences, FiniteSets, TLC

VARIABLES
    codec,      \* SpecCodec: the inputs and outputs of one codec application
    initOnce,   \* db.go:15  sync.Once: "fresh", "running" or "done"
    cache,      \* db.go:16  the package-level *KDB (NilKDB or a KDB record)
    dirs,       \* the directories that exist in the file system
    badger,     \* the collaborator: [opens, attempts, options]
    call,       \* per goroutine: the New call in progress (pc, arguments, locals)
    ret,        \* per goroutine: what its last New / Get / Close returned
    panicked,   \* the panic that ended the process, NoPanic while it runs
    db,         \* the record keys of the collaborator: key -> value
    counters,   \* the reserved counter keys: key -> 8 big-endian bytes
    registry,   \* the hash-type registry
    mu,         \* KDB.mu: the goroutine holding it, or NoProc
    closed,     \* TRUE once kc.c.Close() has run
    pc,         \* per goroutine: position inside a recount operation
    local,      \* per goroutine: the locals of the recount in progress
    dirty,      \* per goroutine: a record write committed during its operation
    latest,     \* history: (hash type, original hash) -> the value last stored
    got,        \* SpecKV: the result of the last query
    seq         \* SpecSeq: the query sequence being consumed, step by step

openVars  == <<initOnce, cache, dirs, badger, call, ret, panicked>>
storeVars == <<db, counters, registry, latest>>
procVars  == <<mu, closed, pc, local, dirty>>
vars == <<codec, initOnce, cache, dirs, badger, call, ret, panicked,
          db, counters, registry, mu, closed, pc, local, dirty, latest, got,
          seq>>

----------------------------------------------------------------------------
(* Bounds *)

\* Records a store holds at most.
MaxRecords == 2

\* New calls a goroutine makes at most.
MaxCalls == 2

\* Program constants.
maxRetries == 3
KeyLen == 32

Procs == {"g1", "g2"}
NoProc == "none"
NoPanic == ""

\* Hash types: 0 (MD5), 100 (SHA1), 1000 (NTLM), 1400 (SHA256) and 1700
\* (SHA512) are hashcat codes the README lists; the decimal text of 100 is
\* a prefix of that of 1000, as 1 is of 100 and 14 of 1400.
CodecHashTypes == {0, 1, 14, 100, 1000, 1400, 1700}
KVHashTypes == {0, 100, 1000, 1400}
RecountHashTypes == {100, 1000}

\* Original hashes of 0, 1, 8, 32 and 64 characters; the two long ones are
\* the MD5 and the SHA256 of "password" the examples store.
OriginalHashes ==
    {"", "a", "b", "password", "5f4dcc3b5aa765d61d8327deb882cf99",
     "5e884898da28047151d0e56f8dc6292773603d0d6aabbdd62a11ef721d1542d8"}
KVHashes == {"a", "b"}
Values == {"v1", "v2"}

\* The search lists of a batch search: the empty one, both orders of two
\* entries, and lists with a repeated entry.
SearchLists == {<<>>, <<"a", "b">>, <<"b", "a">>, <<"a", "b", "a">>, <<"b", "b">>}

\* The partial digests of a prefix search: the empty one, the beginning of
\* the digest of "a", and one no stored digest begins with.
SumPrefixes == {"", "ca97", "ff"}

----------------------------------------------------------------------------
(* Key codec *)

\* A plausible slip: the digest of an empty buffer, whatever the data.
SHA256SumOfEmpty(data) ==
    "e3b0c44298fc1c149afbf4c8996fb92427ae41e4649b934ca495991b7852b855"

\* crypto.go SHA256Sum: the hex text of the SHA-256 digest, tabulated for
\* the original hashes of the model.
SHA256Sum(data) ==
    CASE data = "a" -> "ca978112ca1bbdcafac231b39a23dc4da786eff8147c4e72b9807785afee48bb"
      [] data = "b" -> "3e23e8160039594a33894f6564e1b1348bbd7a0088d42c4acb73eeaed59c009d"
      [] data = "password" -> "5e884898da28047151d0e56f8dc6292773603d0d6aabbdd62a11ef721d1542d8"
      [] data = "" -> "e3b0c44298fc1c149afbf4c8996fb92427ae41e4649b934ca495991b7852b855"
      [] data = "5f4dcc3b5aa765d61d8327deb882cf99"
            -> "3f2cd8e57b096fe7e4a78a5627e34ca3f885ad65a56e61c287cf4211bbc5949f"
      [] data = "5e884898da28047151d0e56f8dc6292773603d0d6aabbdd62a11ef721d1542d8"
            -> "113459eb7bb31bddee85ade5230d6ad5d8b2fb52879e00a84ff6ae1067a210d3"

Digit(d) ==
    CASE d = 0 -> "0" [] d = 1 -> "1" [] d = 2 -> "2" [] d = 3 -> "3"
      [] d = 4 -> "4" [] d = 5 -> "5" [] d = 6 -> "6" [] d = 7 -> "7"
      [] d = 8 -> "8" [] d = 9 -> "9"

\* A plausible slip: the hash type formatted with %x.
RECURSIVE Hexadecimal(_)
Hexadecimal(n) ==
    LET d == n % 16
        c == IF d < 10 THEN Digit(d)
             ELSE CASE d = 10 -> "a" [] d = 11 -> "b" [] d = 12 -> "c"
                    [] d = 13 -> "d" [] d = 14 -> "e" [] d = 15 -> "f"
    IN  IF n < 16 THEN c ELSE Hexadecimal(n \div 16) \o c

\* fmt's %d of a uint64.
RECURSIVE Decimal(_)
Decimal(n) ==
    IF n < 10 THEN Digit(n) ELSE Decimal(n \div 10) \o Digit(n % 10)

\* A plausible slip: the hash type left out of the record key.
storedHashPrefixNoType(hashType, sum) == "krkn:" \o sum

\* db.go:20  fmt.Sprintf("krkn:%d:%v", hashType, sum)
storedHashPrefix(hashType, sum) ==
    "krkn:" \o Decimal(hashType) \o ":" \o sum

\* db.go:21  fmt.Sprintf("krkn:%d", hashType)
hashTypeLookupPrefix(hashType) == "krkn:" \o Decimal(hashType)

\* The canonical key of a record: NewHash computes Sum = SHA256Sum(hash) and
\* formats the key with storedHashPrefix.
Encode(hashType, hash) == storedHashPrefix(hashType, SHA256Sum(hash))

\* bytes.HasPrefix, as the iterator's ValidForPrefix applies it.
ValidForPrefix(key, prefix) ==
    /\ Len(key) >= Len(prefix)
    /\ SubSeq(key, 1, Len(prefix)) = prefix

----------------------------------------------------------------------------
(* The collaborator's ordered key space *)

\* The byte value of a character of a key.
Ord(c) ==
    CASE c = "0" -> 48 [] c = "1" -> 49 [] c = "2" -> 50 [] c = "3" -> 51
      [] c = "4" -> 52 [] c = "5" -> 53 [] c = "6" -> 54 [] c = "7" -> 55
      [] c = "8" -> 56 [] c = "9" -> 57 [] c = ":" -> 58
      [] c = "a" -> 97 [] c = "b" -> 98 [] c = "c" -> 99 [] c = "d" -> 100
      [] c = "e" -> 101 [] c = "f" -> 102
      [] c = "k" -> 107 [] c = "n" -> 110 [] c = "r" -> 114

\* bytes.Compare(a, b) < 0 from position i on: the order the iterator yields keys in.
RECURSIVE KeyLessFrom(_, _, _)
KeyLessFrom(a, b, i) ==
    IF i > Len(b) THEN FALSE
    ELSE IF i > Len(a) THEN TRUE
    ELSE LET x == Ord(SubSeq(a, i, i))
             y == Ord(SubSeq(b, i, i))
         IN  IF x # y THEN x < y ELSE KeyLessFrom(a, b, i + 1)

KeyLess(a, b) == KeyLessFrom(a, b, 1)

RECURSIVE SortKeys(_)
SortKeys(S) ==
    IF S = {} THEN <<>>
    ELSE LET m == CHOOSE k \in S : \A j \in S : j = k \/ KeyLess(k, j)
         IN  <<m>> \o SortKeys(S \ {m})

\* A plausible slip: the scan stops after the first key under the prefix.
ScanKeysFirst(d, prefix) ==
    LET keys == SortKeys({k \in DOMAIN d : ValidForPrefix(k, prefix)})
    IN  IF keys = <<>> THEN <<>> ELSE <<keys[1]>>

\* it.Seek(prefix); it.ValidForPrefix(prefix); it.Next(): the keys under
\* prefix, ascending.
ScanKeys(d, prefix) ==
    SortKeys({k \in DOMAIN d : ValidForPrefix(k, prefix)})

----------------------------------------------------------------------------
(* Counters *)

\* binary.BigEndian.PutUint64(buf, uint64(count)): count is a key count,
\* below 2^32, so the four high bytes are zero.
PutUint64(count) ==
    [i \in 1..8 |-> IF i <= 4 THEN 0 ELSE (count \div (256 ^ (8 - i))) % 256]

\* The value of the first n bytes of a big-endian counter.
RECURSIVE Uint64Upto(_, _)
Uint64Upto(buf, n) ==
    IF n = 0 THEN 0 ELSE Uint64Upto(buf, n - 1) * 256 + buf[n]

Uint64(buf) == Uint64Upto(buf, Len(buf))

\* The reserved counter keys.
totalHashesKey == "count:total"
hashTypeCountPrefix(hashType) == "count:type:" \o Decimal(hashType)

\* The counter under key, 0 when it is absent.
CountOf(cs, key) == IF key \in DOMAIN cs THEN Uint64(cs[key]) ELSE 0

\* A plausible slip: the count is added to the counter, not written over it.
SetCounterAdding(cs, key, count) ==
    (key :> PutUint64(count + (IF key \in DOMAIN cs THEN Uint64(cs[key]) ELSE 0)))
        @@ cs

\* The counter write of setCount: txn.Set([]byte(key), buf).
SetCounter(cs, key, count) == (key :> PutUint64(count)) @@ cs

RECURSIVE SortTypes(_)
SortTypes(S) ==
    IF S = {} THEN <<>>
    ELSE LET m == CHOOSE t \in S : \A u \in S : t <= u
         IN  <<m>> \o SortTypes(S \ {m})

\* getRegisteredHashTypes: the registry, enumerated in ascending order.
getRegisteredHashTypes(reg) == SortTypes(reg)

\* The stored records whose HashType is exactly hashType.
RecordsOfType(d, hashType, hashes) ==
    {k \in DOMAIN d : \E h \in hashes : k = Encode(hashType, h)}

----------------------------------------------------------------------------
(* The write path and the queries *)

NoResult == [op |-> "none", hashType |-> 0, hash |-> "", found |-> FALSE,
             value |-> "", out |-> <<>>, list |-> <<>>, prefix |-> ""]

\* The locals of a recount, and the record of its counter writes: the keys
\* it wrote, in order, and the count each key held before (-1: absent).
NoLocal == [op |-> "none", hashTypes |-> <<>>, idx |-> 0, count |-> 0,
            totalCount |-> 0, result |-> "", written |-> <<>>, prev |-> <<>>]

\* The locals after a counter write under key.
Wrote(l, cs, key) ==
    [l EXCEPT !.written = Append(@, key),
              !.prev = Append(@, IF key \in DOMAIN cs THEN Uint64(cs[key]) ELSE -1)]

\* The key a point lookup reads: the canonical key of (hashType, hash).
LookupKey(hashType, hash) == Encode(hashType, hash)

\* The counters after a record write under key: the per-type and the total
\* counter grow by one when the key is new.
CountersAfterStore(cs, d, key, hashType) ==
    IF key \in DOMAIN d THEN cs
    ELSE LET c1 == SetCounter(cs, hashTypeCountPrefix(hashType),
                              CountOf(cs, hashTypeCountPrefix(hashType)) + 1)
         IN  SetCounter(c1, totalHashesKey, CountOf(c1, totalHashesKey) + 1)

\* A plausible slip: the record write leaves the registration of its hash
\* type to a later, best-effort step.
StoreUnregistered(p, hash, value, hashType) ==
    LET key == Encode(hashType, hash)
        id  == <<hashType, hash>>
    IN  /\ panicked = NoPanic /\ ~closed
        /\ pc[p] = "idle" /\ mu = NoProc
        /\ key \in DOMAIN db \/ Cardinality(DOMAIN db) < MaxRecords
        /\ db' = (key :> value) @@ db
        /\ registry' = registry
        /\ counters' = CountersAfterStore(counters, db, key, hashType)
        /\ latest' = (id :> [value |-> value,
                             prev |-> IF id \notin DOMAIN latest THEN ""
                                      ELSE IF latest[id].value # value
                                           THEN latest[id].value
                                           ELSE latest[id].prev]) @@ latest
        /\ dirty' = [q \in Procs |-> dirty[q] \/ pc[q] # "idle"]
        /\ got' = NoResult
        /\ UNCHANGED <<codec, openVars, mu, closed, pc, local, seq>>

\* Hash.Store: one transaction writes the value under the canonical key,
\* registers the hash type and updates the counters.
Store(p, hash, value, hashType) ==
    LET key == Encode(hashType, hash)
        id  == <<hashType, hash>>
    IN  /\ panicked = NoPanic /\ ~closed
        /\ pc[p] = "idle" /\ mu = NoProc
        /\ key \in DOMAIN db \/ Cardinality(DOMAIN db) < MaxRecords
        /\ db' = (key :> value) @@ db
        /\ registry' = registry \cup {hashType}
        /\ counters' = CountersAfterStore(counters, db, key, hashType)
        /\ latest' = (id :> [value |-> value,
                             prev |-> IF id \notin DOMAIN latest THEN ""
                                      ELSE IF latest[id].value # value
                                           THEN latest[id].value
                                           ELSE latest[id].prev]) @@ latest
        /\ dirty' = [q \in Procs |-> dirty[q] \/ pc[q] # "idle"]
        /\ got' = NoResult
        /\ UNCHANGED <<codec, openVars, mu, closed, pc, local, seq>>

\* GetHashByOriginalHash: one point read of the canonical key.
GetHashByOriginalHash(d, hash, hashType) ==
    LET key == LookupKey(hashType, hash)
    IN  IF key \in DOMAIN d
        THEN [found |-> TRUE, value |-> d[key]]
        ELSE [found |-> FALSE, value |-> ""]

\* The digest part of a record key: its last 64 characters.
SumOfKey(key) == SubSeq(key, Len(key) - 63, Len(key))

\* GetHashesByHashType: one ordered scan under the type's lookup prefix,
\* yielding the record of every key visited.
GetHashesByHashType(d, hashType) ==
    LET keys == ScanKeys(d, hashTypeLookupPrefix(hashType))
    IN  [i \in 1..Len(keys) |->
            [key |-> keys[i], sum |-> SumOfKey(keys[i]), value |-> d[keys[i]]]]

\* The queries are called one at a time; got holds the result of the last
\* one until the next write.
Get(hash, hashType) ==
    LET r == GetHashByOriginalHash(db, hash, hashType)
    IN  /\ panicked = NoPanic /\ ~closed /\ mu = NoProc
        /\ got = NoResult
        /\ got' = [NoResult EXCEPT !.op = "get", !.hashType = hashType,
                                    !.hash = hash, !.found = r.found,
                                    !.value = r.value]
        /\ UNCHANGED <<codec, openVars, storeVars, procVars, seq>>

Iterate(hashType) ==
    /\ panicked = NoPanic /\ ~closed /\ mu = NoProc
    /\ got = NoResult
    /\ got' = [NoResult EXCEPT !.op = "iter", !.hashType = hashType,
                                !.out = GetHashesByHashType(db, hashType)]
    /\ UNCHANGED <<codec, openVars, storeVars, procVars, seq>>

\* The records of a sequence of keys, in that order.
RecordsAt(d, keys) ==
    [i \in 1..Len(keys) |->
        [key |-> keys[i], sum |-> SumOfKey(keys[i]), value |-> d[keys[i]]]]

\* FindHashes: the search list becomes a set of canonical keys; one ordered
\* scan under the type's lookup prefix yields the record of every visited
\* key that is in the set.
FindHashes(d, hashes, hashType) ==
    LET searchSet == {Encode(hashType, hashes[i]) : i \in 1..Len(hashes)}
        keys == ScanKeys(d, hashTypeLookupPrefix(hashType))
    IN  RecordsAt(d, SelectSeq(keys, LAMBDA k : k \in searchSet))

\* The scan prefix of a prefix search: the record key format applied to the
\* partial digest.
PrefixQuery(hashType, sumPrefix) == storedHashPrefix(hashType, sumPrefix)

\* SearchHashesByPrefix: one ordered scan under PrefixQuery, yielding the
\* record of every key visited.
SearchHashesByPrefix(d, sumPrefix, hashType) ==
    RecordsAt(d, ScanKeys(d, PrefixQuery(hashType, sumPrefix)))

Find(hashes, hashType) ==
    /\ panicked = NoPanic /\ ~closed /\ mu = NoProc
    /\ got = NoResult
    /\ got' = [NoResult EXCEPT !.op = "find", !.hashType = hashType,
                                !.list = hashes,
                                !.out = FindHashes(db, hashes, hashType)]
    /\ UNCHANGED <<codec, openVars, storeVars, procVars, seq>>

Search(sumPrefix, hashType) ==
    /\ panicked = NoPanic /\ ~closed /\ mu = NoProc
    /\ got = NoResult
    /\ got' = [NoResult EXCEPT !.op = "search", !.hashType = hashType,
                                !.prefix = sumPrefix,
                                !.out = SearchHashesByPrefix(db, sumPrefix, hashType)]
    /\ UNCHANGED <<codec, openVars, storeVars, procVars, seq>>

----------------------------------------------------------------------------
(* The query sequences, step by step *)

\* A query sequence: the read transaction and the cursor it holds open, the
\* keys of its snapshot under the scan prefix, the cursor position, and the
\* work counted so far.
NoSeq == [phase |-> "idle", kind |-> "none", hashType |-> 0, set |-> {},
          keys |-> <<>>, pos |-> 0, txns |-> 0, cursors |-> 0,
          advances |-> 0, fetches |-> 0, out |-> <<>>, exit |-> ""]

\* A plausible slip: the cursor and the transaction are released only when
\* the scan ran to its end.
ExitOnExhaustion(s, exit) ==
    IF exit = "exhausted"
    THEN [s EXCEPT !.phase = "done", !.exit = exit, !.cursors = 0, !.txns = 0]
    ELSE [s EXCEPT !.phase = "done", !.exit = exit]

\* The sequence returns: the deferred closes release the cursor and the
\* read transaction, whatever the reason for returning.
Exit(s, exit) ==
    [s EXCEPT !.phase = "done", !.exit = exit, !.cursors = 0, !.txns = 0]

\* A scanning query starts: the read transaction opens on the current
\* records, the cursor opens and seeks to the prefix.
BeginScan(kind, hashType, prefix, set) ==
    /\ panicked = NoPanic /\ ~closed /\ mu = NoProc
    /\ seq.phase = "idle"
    /\ seq' = [NoSeq EXCEPT !.phase = "open", !.kind = kind,
                            !.hashType = hashType, !.set = set,
                            !.keys = ScanKeys(db, prefix), !.pos = 1,
                            !.txns = 1, !.cursors = 1, !.advances = 1]
    /\ UNCHANGED <<codec, openVars, storeVars, procVars, got>>

SeqIterate(hashType) ==
    BeginScan("iter", hashType, hashTypeLookupPrefix(hashType), {})

SeqFind(hashes, hashType) ==
    BeginScan("find", hashType, hashTypeLookupPrefix(hashType),
              {Encode(hashType, hashes[i]) : i \in 1..Len(hashes)})

SeqSearch(sumPrefix, hashType) ==
    BeginScan("search", hashType, PrefixQuery(hashType, sumPrefix), {})

\* The point lookup starts: a read transaction and no cursor.
SeqGet(hash, hashType) ==
    /\ panicked = NoPanic /\ ~closed /\ mu = NoProc
    /\ seq.phase = "idle"
    /\ seq' = [NoSeq EXCEPT !.phase = "open", !.kind = "get",
                            !.hashType = hashType,
                            !.keys = IF LookupKey(hashType, hash) \in DOMAIN db
                                     THEN <<LookupKey(hashType, hash)>> ELSE <<>>,
                            !.pos = 1, !.txns = 1]
    /\ UNCHANGED <<codec, openVars, storeVars, procVars, got>>

\* The cursor moves to the next key.
Advance(s) == [s EXCEPT !.pos = @ + 1, !.advances = @ + s.cursors]

\* One turn of the scan loop: past the last key under the prefix the
\* sequence returns; a key the batch search does not look for is passed
\* over; any other key has its value fetched and its record handed to the
\* consumer.
SeqStep ==
    /\ panicked = NoPanic /\ seq.phase = "open"
    /\ seq' = IF seq.pos > Len(seq.keys)
              THEN Exit(seq, "exhausted")
              ELSE IF seq.kind = "find" /\ seq.keys[seq.pos] \notin seq.set
                   THEN Advance(seq)
                   ELSE [seq EXCEPT !.phase = "yielded", !.fetches = @ + 1,
                                    !.out = Append(@, seq.keys[seq.pos])]
    /\ UNCHANGED <<codec, openVars, storeVars, procVars, got>>

\* The consumer asks for the next item.
SeqContinue ==
    /\ panicked = NoPanic /\ seq.phase = "yielded"
    /\ seq' = [Advance(seq) EXCEPT !.phase = "open"]
    /\ UNCHANGED <<codec, openVars, storeVars, procVars, got>>

\* A plausible slip: after the consumer stops, the scan still runs to the
\* end of the prefix before it returns.
SeqStopDraining ==
    /\ panicked = NoPanic /\ seq.phase = "yielded"
    /\ seq' = Exit([seq EXCEPT !.advances = Len(seq.keys) + 1,
                               !.pos = Len(seq.keys) + 1], "stopped")
    /\ UNCHANGED <<codec, openVars, storeVars, procVars, got>>

\* The consumer stops at the item it was handed: the sequence returns
\* without touching the cursor again.
SeqStop ==
    /\ panicked = NoPanic /\ seq.phase = "yielded"
    /\ seq' = Exit(seq, "stopped")
    /\ UNCHANGED <<codec, openVars, storeVars, procVars, got>>

\* The collaborator fails the read at the cursor position: the sequence
\* returns the error.
SeqFail ==
    /\ panicked = NoPanic /\ seq.phase = "open"
    /\ seq.pos <= Len(seq.keys)
    /\ seq' = Exit(seq, "error")
    /\ UNCHANGED <<codec, openVars, storeVars, procVars, got>>

\* The caller is done with the sequence.
SeqTake ==
    /\ panicked = NoPanic /\ seq.phase = "done"
    /\ seq' = NoSeq
    /\ UNCHANGED <<codec, openVars, storeVars, procVars, got>>

----------------------------------------------------------------------------
(* PerformRecount, RecountHashType and setCount, step by step *)

\* The operation of goroutine p returns result.
Finish(p, result) ==
    /\ pc' = [pc EXCEPT ![p] = "done"]
    /\ local' = [local EXCEPT ![p].result = result]

\* A plausible slip: with no registered type the recount returns at once
\* and leaves the total counter as it is.
PerformRecountStartNoReset(p) ==
    /\ panicked = NoPanic /\ pc[p] = "idle"
    /\ IF closed
       THEN /\ pc' = [pc EXCEPT ![p] = "done"]
            /\ local' = [local EXCEPT ![p] =
                   [NoLocal EXCEPT !.op = "PerformRecount", !.result = "err:types"]]
       ELSE LET hashTypes == getRegisteredHashTypes(registry)
            IN  /\ pc' = [pc EXCEPT ![p] =
                       IF Len(hashTypes) = 0 THEN "done" ELSE "scan"]
                /\ local' = [local EXCEPT ![p] =
                       [NoLocal EXCEPT !.op = "PerformRecount",
                                       !.hashTypes = hashTypes, !.idx = 1,
                                       !.result = IF Len(hashTypes) = 0
                                                  THEN "ok" ELSE ""]]
    /\ dirty' = [dirty EXCEPT ![p] = FALSE]
    /\ UNCHANGED <<codec, openVars, storeVars, mu, closed, got, seq>>

\* PerformRecount, lines 17-34: enumerate the registry; with no registered
\* type only the total counter is written.
PerformRecountStart(p) ==
    /\ panicked = NoPanic /\ pc[p] = "idle"
    /\ IF closed
       THEN /\ pc' = [pc EXCEPT ![p] = "done"]
            /\ local' = [local EXCEPT ![p] =
                   [NoLocal EXCEPT !.op = "PerformRecount", !.result = "err:types"]]
       ELSE LET hashTypes == getRegisteredHashTypes(registry)
            IN  /\ pc' = [pc EXCEPT ![p] =
                       IF Len(hashTypes) = 0 THEN "total" ELSE "scan"]
                /\ local' = [local EXCEPT ![p] =
                       [NoLocal EXCEPT !.op = "PerformRecount",
                                       !.hashTypes = hashTypes, !.idx = 1]]
    /\ dirty' = [dirty EXCEPT ![p] = FALSE]
    /\ UNCHANGED <<codec, openVars, storeVars, mu, closed, got, seq>>

\* RecountHashType, lines 84-88.
RecountHashTypeStart(p, hashType) ==
    /\ panicked = NoPanic /\ pc[p] = "idle"
    /\ pc' = [pc EXCEPT ![p] = "scan"]
    /\ local' = [local EXCEPT ![p] =
           [NoLocal EXCEPT !.op = "RecountHashType",
                           !.hashTypes = <<hashType>>, !.idx = 1]]
    /\ dirty' = [dirty EXCEPT ![p] = FALSE]
    /\ UNCHANGED <<codec, openVars, storeVars, mu, closed, got, seq>>

\* kc.c.View opens its read transaction and the loop counts the keys under
\* the prefix in the transaction's snapshot (lines 39-52, 88-101). KDB.mu is
\* not taken.
ScanBegin(p) ==
    /\ panicked = NoPanic /\ pc[p] = "scan"
    /\ IF closed
       THEN Finish(p, "err:count")
       ELSE LET hashType == local[p].hashTypes[local[p].idx]
                prefix == hashTypeLookupPrefix(hashType)
            IN  /\ pc' = [pc EXCEPT ![p] = "scanning"]
                /\ local' = [local EXCEPT ![p].count = Len(ScanKeys(db, prefix))]
    /\ UNCHANGED <<codec, openVars, storeVars, mu, closed, dirty, got, seq>>

\* The read transaction ends (lines 54-60, 103-109). When the handle was
\* closed under the open iterator the outcome is the collaborator's: the
\* count, an error, or a panic.
ScanEnd(p) ==
    /\ panicked = NoPanic /\ pc[p] = "scanning"
    /\ \/ /\ pc' = [pc EXCEPT ![p] = "set"]
          /\ UNCHANGED <<local, panicked>>
       \/ /\ closed
          /\ Finish(p, "err:count")
          /\ UNCHANGED panicked
       \/ /\ closed
          /\ panicked' = "View: handle closed under an open iterator"
          /\ UNCHANGED <<pc, local>>
    /\ UNCHANGED <<codec, initOnce, cache, dirs, badger, call, ret,
                   storeVars, mu, closed, dirty, got, seq>>

\* setCount, line 124: kc.mu.Lock().
SetCountLock(p) ==
    /\ panicked = NoPanic /\ pc[p] \in {"set", "total"}
    /\ mu = NoProc
    /\ mu' = p
    /\ pc' = [pc EXCEPT ![p] = IF pc[p] = "set" THEN "setting" ELSE "totaling"]
    /\ UNCHANGED <<codec, openVars, storeVars, closed, local, dirty, got, seq>>

\* setCount, lines 125-132, for the counter of the type just scanned, and
\* lines 64-71 / 113-119 after it.
SetCountType(p) ==
    /\ panicked = NoPanic /\ pc[p] = "setting" /\ mu = p
    /\ mu' = NoProc
    /\ IF closed
       THEN /\ Finish(p, "err:update")
            /\ UNCHANGED <<counters, dirty>>
       ELSE LET l == local[p]
                hashType == l.hashTypes[l.idx]
                countKey == hashTypeCountPrefix(hashType)
                w == Wrote(l, counters, countKey)
            IN  /\ counters' = SetCounter(counters, countKey, l.count)
                /\ dirty' = [q \in Procs |-> IF q = p THEN dirty[q]
                                             ELSE dirty[q] \/ pc[q] # "idle"]
                /\ IF l.op = "RecountHashType"
                   THEN /\ pc' = [pc EXCEPT ![p] = "done"]
                        /\ local' = [local EXCEPT ![p] = [w EXCEPT !.result = "ok"]]
                   ELSE /\ local' = [local EXCEPT ![p] =
                               [w EXCEPT !.totalCount = l.totalCount + l.count,
                                         !.idx = l.idx + 1]]
                        /\ pc' = [pc EXCEPT ![p] =
                               IF l.idx = Len(l.hashTypes) THEN "total" ELSE "scan"]
    /\ UNCHANGED <<codec, openVars, db, registry, latest, closed, got, seq>>

\* setCount for the total counter (lines 26-29, 74-80).
SetCountTotal(p) ==
    /\ panicked = NoPanic /\ pc[p] = "totaling" /\ mu = p
    /\ mu' = NoProc
    /\ IF closed
       THEN /\ Finish(p, "err:total")
            /\ UNCHANGED <<counters, dirty>>
       ELSE /\ counters' = SetCounter(counters, totalHashesKey, local[p].totalCount)
            /\ dirty' = [q \in Procs |-> IF q = p THEN dirty[q]
                                         ELSE dirty[q] \/ pc[q] # "idle"]
            /\ pc' = [pc EXCEPT ![p] = "done"]
            /\ local' = [local EXCEPT ![p] =
                   [Wrote(local[p], counters, totalHashesKey) EXCEPT !.result = "ok"]]
    /\ UNCHANGED <<codec, openVars, db, registry, latest, closed, got, seq>>

\* PerformRecount, lines 17-21: the collaborator fails the enumeration of
\* the registry.
RegistryFail(p) ==
    /\ panicked = NoPanic /\ pc[p] = "idle"
    /\ pc' = [pc EXCEPT ![p] = "done"]
    /\ local' = [local EXCEPT ![p] =
           [NoLocal EXCEPT !.op = "PerformRecount", !.result = "err:types"]]
    /\ dirty' = [dirty EXCEPT ![p] = FALSE]
    /\ UNCHANGED <<codec, openVars, storeVars, mu, closed, got, seq>>

\* kc.c.View returns an error (lines 57-60, 106-109): the recount returns it.
ScanFail(p) ==
    /\ panicked = NoPanic /\ pc[p] = "scan"
    /\ Finish(p, "err:count")
    /\ UNCHANGED <<codec, openVars, storeVars, mu, closed, dirty, got, seq>>

\* A plausible slip: a failed counter write is logged and the loop goes on
\* to the next type.
SetCountFailMasked(p) ==
    /\ panicked = NoPanic /\ pc[p] \in {"setting", "totaling"} /\ mu = p
    /\ mu' = NoProc
    /\ IF pc[p] = "totaling" \/ local[p].op = "RecountHashType"
       THEN Finish(p, IF pc[p] = "setting" THEN "err:update" ELSE "err:total")
       ELSE /\ local' = [local EXCEPT ![p].idx = @ + 1]
            /\ pc' = [pc EXCEPT ![p] =
                   IF local[p].idx = Len(local[p].hashTypes) THEN "total" ELSE "scan"]
    /\ UNCHANGED <<codec, openVars, storeVars, closed, dirty, got, seq>>

\* kc.c.Update returns an error inside setCount (lines 26-28, 64-67, 74-77,
\* 113-116): nothing is written and the recount returns the error.
SetCountFail(p) ==
    /\ panicked = NoPanic /\ pc[p] \in {"setting", "totaling"} /\ mu = p
    /\ mu' = NoProc
    /\ Finish(p, IF pc[p] = "setting" THEN "err:update" ELSE "err:total")
    /\ UNCHANGED <<codec, openVars, storeVars, closed, dirty, got, seq>>

\* The caller takes the result; the goroutine is free for its next call.
Return(p) ==
    /\ panicked = NoPanic /\ pc[p] = "done"
    /\ pc' = [pc EXCEPT ![p] = "idle"]
    /\ local' = [local EXCEPT ![p] = NoLocal]
    /\ dirty' = [dirty EXCEPT ![p] = FALSE]
    /\ UNCHANGED <<codec, openVars, storeVars, mu, closed, got, seq>>

\* Close, lines 147-152: under KDB.mu, kc.c.Close().
Close(p) ==
    /\ panicked = NoPanic /\ pc[p] = "idle"
    /\ mu = NoProc
    /\ ~closed
    /\ closed' = TRUE
    /\ UNCHANGED <<codec, openVars, storeVars, mu, pc, local, dirty, got, seq>>

----------------------------------------------------------------------------
(* New, Get and Close *)

Cwd == "/home/krkn"
Folders == {"data", "/srv/other"}
KeyLens == {0, 31, 32, 33}

NilKDB == [nil |-> TRUE, c |-> 0, isNew |-> FALSE, absPath |-> "",
           parentFolder |-> "", keyLen |-> 0]

NoCall == [pc |-> "idle", dbFolder |-> "", keyLen |-> 0, nopts |-> 0,
           absPath |-> "", dbOptions |-> "", err |-> "", i |-> 0,
           isNewDB |-> FALSE, calls |-> 0, rejected |-> FALSE]

NoRet == [op |-> "none", nil |-> TRUE, store |-> NilKDB, err |-> "",
          live |-> FALSE, failures |-> 0, badKey |-> FALSE]

\* filepath.Abs: an absolute path is itself, a relative one is joined to
\* the working directory.
Abs(path) == IF SubSeq(path, 1, 1) = "/" THEN path ELSE Cwd \o "/" \o path

\* filepath.Join(absPath, "krkn.db")
DbFile(absPath) == absPath \o "/" \o "krkn.db"

\* The runtime panic of opts[0] on an empty slice.
PanicIndex == "New: index out of range [0] with length 0"

ErrKey == "encryption key must be 32 bytes"
ErrAbs(dbFolder) == "failed to get absolute path for '" \o dbFolder \o "': getwd"
ErrMkdir == "failed to create krkn database directory: mkdir"
ErrAttempt(n) == "badger.Open: attempt " \o Decimal(n)
ErrOpen(err) ==
    "failed to open krkn database after " \o Decimal(maxRetries) \o " retries: " \o err

\* A plausible slip: only an empty key is rejected.
KeyRejectedEmptyOnly(keyLen) == keyLen = 0

\* Line 45: len(encryptionKey) == 0 || len(encryptionKey) != 32
KeyRejected(keyLen) == keyLen = 0 \/ keyLen # KeyLen

\* A plausible slip: the loop bound taken inclusively.
RetryLoopInclusive(i) == i <= maxRetries

\* Line 102: the loop condition i < maxRetries.
RetryLoop(i) == i < maxRetries

\* New, lines 38-63: the key check, the absolute path and the choice of
\* options. With no Options argument the else branch indexes opts[0] of an
\* empty slice.
NewEnter(p, dbFolder, keyLen, nopts) ==
    /\ panicked = NoPanic
    /\ call[p].pc = "idle" /\ call[p].calls < MaxCalls
    /\ LET c == [NoCall EXCEPT !.calls = call[p].calls + 1,
                               !.rejected = call[p].rejected]
           r == [NoRet EXCEPT !.op = "New", !.badKey = (keyLen # 32)]
       IN  IF KeyRejected(keyLen)
           THEN /\ call' = [call EXCEPT ![p] = [c EXCEPT !.rejected = TRUE]]
                /\ ret' = [ret EXCEPT ![p] = [r EXCEPT !.err = ErrKey]]
                /\ UNCHANGED panicked
           ELSE \/ /\ SubSeq(dbFolder, 1, 1) # "/"
                   /\ call' = [call EXCEPT ![p] = c]
                   /\ ret' = [ret EXCEPT ![p] = [r EXCEPT !.err = ErrAbs(dbFolder)]]
                   /\ UNCHANGED panicked
                \/ /\ nopts > 0
                   /\ call' = [call EXCEPT ![p] =
                          [c EXCEPT !.pc = "once", !.dbFolder = dbFolder,
                                    !.keyLen = keyLen, !.nopts = nopts,
                                    !.absPath = Abs(dbFolder),
                                    !.dbOptions = "DefaultOptions"]]
                   /\ UNCHANGED <<ret, panicked>>
                \/ /\ nopts = 0
                   /\ call' = [call EXCEPT ![p] =
                          [c EXCEPT !.pc = "panic", !.dbFolder = dbFolder,
                                    !.keyLen = keyLen, !.nopts = nopts,
                                    !.absPath = Abs(dbFolder)]]
                   /\ panicked' = PanicIndex
                   /\ UNCHANGED ret
    /\ UNCHANGED <<codec, initOnce, cache, dirs, badger, storeVars, procVars, got, seq>>

\* initOnce.Do, lines 65-75: the first caller runs the function; a caller
\* arriving while it runs waits; a later caller skips it. The function
\* creates the directory when it is missing.
OnceEnter(p) ==
    /\ panicked = NoPanic /\ call[p].pc = "once"
    /\ initOnce # "running"
    /\ IF initOnce = "done"
       THEN /\ call' = [call EXCEPT ![p].pc = "after"]
            /\ UNCHANGED <<initOnce, dirs>>
       ELSE LET isNewDB == call[p].absPath \notin dirs
            IN  \/ /\ initOnce' = "running"
                   /\ dirs' = dirs \cup {call[p].absPath}
                   /\ call' = [call EXCEPT ![p].pc = "open", ![p].isNewDB = isNewDB]
                \/ /\ isNewDB
                   /\ initOnce' = "done"
                   /\ call' = [call EXCEPT ![p].pc = "after", ![p].isNewDB = isNewDB,
                                           ![p].err = ErrMkdir]
                   /\ UNCHANGED dirs
    /\ UNCHANGED <<codec, cache, badger, ret, panicked, storeVars, procVars, got, seq>>

\* A plausible slip: the loop has no break, so a pass that opened the
\* collaborator is followed by the remaining passes.
OpenAttemptNoBreak(p) ==
    /\ panicked = NoPanic /\ call[p].pc = "open"
    /\ RetryLoop(call[p].i)
    /\ \/ /\ badger' = [badger EXCEPT !.attempts = @ + 1, !.opens = @ + 1,
                                      !.options = call[p].dbOptions]
          /\ cache' = [nil |-> FALSE, c |-> badger.opens + 1,
                       isNew |-> call[p].isNewDB,
                       absPath |-> DbFile(call[p].absPath),
                       parentFolder |-> call[p].absPath,
                       keyLen |-> call[p].keyLen]
          /\ IF RetryLoop(call[p].i + 1)
             THEN /\ call' = [call EXCEPT ![p].i = @ + 1, ![p].err = ""]
                  /\ UNCHANGED initOnce
             ELSE /\ call' = [call EXCEPT ![p].i = @ + 1, ![p].pc = "after",
                                          ![p].err = ""]
                  /\ initOnce' = "done"
       \/ /\ badger' = [badger EXCEPT !.attempts = @ + 1]
          /\ LET err == ErrAttempt(call[p].i + 1)
             IN  IF RetryLoop(call[p].i + 1)
                 THEN /\ call' = [call EXCEPT ![p].i = @ + 1, ![p].err = err]
                      /\ UNCHANGED initOnce
                 ELSE /\ call' = [call EXCEPT ![p].i = @ + 1, ![p].pc = "after",
                                              ![p].err = ErrOpen(err)]
                      /\ initOnce' = "done"
          /\ UNCHANGED cache
    /\ UNCHANGED <<codec, dirs, ret, panicked, storeVars, procVars, got, seq>>

\* One pass of the retry loop, lines 102-117, and on success the
\* assignment of cache, lines 119-126.
OpenAttempt(p) ==
    /\ panicked = NoPanic /\ call[p].pc = "open"
    /\ RetryLoop(call[p].i)
    /\ \/ /\ badger' = [badger EXCEPT !.attempts = @ + 1, !.opens = @ + 1,
                                      !.options = call[p].dbOptions]
          /\ cache' = [nil |-> FALSE, c |-> badger.opens + 1,
                       isNew |-> call[p].isNewDB,
                       absPath |-> DbFile(call[p].absPath),
                       parentFolder |-> call[p].absPath,
                       keyLen |-> call[p].keyLen]
          /\ call' = [call EXCEPT ![p].pc = "after", ![p].err = ""]
          /\ initOnce' = "done"
       \/ /\ badger' = [badger EXCEPT !.attempts = @ + 1]
          /\ LET err == ErrAttempt(call[p].i + 1)
             IN  IF RetryLoop(call[p].i + 1)
                 THEN /\ call' = [call EXCEPT ![p].i = @ + 1, ![p].err = err]
                      /\ UNCHANGED initOnce
                 ELSE /\ call' = [call EXCEPT ![p].i = @ + 1, ![p].pc = "after",
                                              ![p].err = ErrOpen(err)]
                      /\ initOnce' = "done"
          /\ UNCHANGED cache
    /\ UNCHANGED <<codec, dirs, ret, panicked, storeVars, procVars, got, seq>>

\* New, lines 129-133.
NewReturn(p) ==
    /\ panicked = NoPanic /\ call[p].pc = "after"
    /\ ret' = [ret EXCEPT ![p] =
           IF call[p].err # ""
           THEN [NoRet EXCEPT !.op = "New", !.err = call[p].err,
                              !.failures = call[p].i,
                              !.badKey = (call[p].keyLen # 32)]
           ELSE [op |-> "New", nil |-> cache.nil, store |-> cache, err |-> "",
                 live |-> ~cache.nil /\ ~closed, failures |-> call[p].i,
                 badKey |-> call[p].keyLen # 32]]
    /\ call' = [call EXCEPT ![p] = [NoCall EXCEPT !.calls = call[p].calls,
                                                  !.rejected = call[p].rejected]]
    /\ UNCHANGED <<codec, initOnce, cache, dirs, badger, panicked,
                   storeVars, procVars, got, seq>>

\* Get, lines 137-139.
GetKDB(p) ==
    /\ panicked = NoPanic /\ call[p].pc = "idle"
    /\ ret' = [ret EXCEPT ![p] =
           [op |-> "Get", nil |-> cache.nil, store |-> cache, err |-> "",
            live |-> ~cache.nil /\ ~closed, failures |-> 0, badKey |-> FALSE]]
    /\ UNCHANGED <<codec, initOnce, cache, dirs, badger, call, panicked,
                   storeVars, procVars, got, seq>>

\* Close, lines 147-152, on the handle the goroutine was last handed: a nil
\* receiver panics at kc.mu.Lock().
CloseKDB(p) ==
    /\ panicked = NoPanic /\ call[p].pc = "idle"
    /\ ret[p].op \in {"New", "Get"} /\ ret[p].err = ""
    /\ mu = NoProc
    /\ IF ret[p].nil
       THEN /\ panicked' = "Close: nil pointer dereference"
            /\ UNCHANGED <<closed, ret>>
       ELSE /\ closed' = TRUE
            /\ ret' = [ret EXCEPT ![p] = [NoRet EXCEPT !.op = "Close"]]
            /\ UNCHANGED panicked
    /\ UNCHANGED <<codec, initOnce, cache, dirs, badger, call,
                   storeVars, mu, pc, local, dirty, got, seq>>

----------------------------------------------------------------------------
(* The codec applied to bounded inputs *)

NoCodec == [phase |-> "idle", hashType |-> 0, keyType |-> 0, hash |-> "",
            prefix |-> "", key |-> "", valid |-> FALSE, again |-> ""]

\* The scan prefix of hashType against the canonical key of (keyType, hash).
CodecApply ==
    /\ codec.phase = "in"
    /\ LET prefix == hashTypeLookupPrefix(codec.hashType)
           key == Encode(codec.keyType, codec.hash)
       IN  codec' = [codec EXCEPT !.phase = "out", !.prefix = prefix, !.key = key,
                                  !.valid = ValidForPrefix(key, prefix)]
    /\ UNCHANGED <<openVars, storeVars, procVars, got, seq>>

\* The key of the same (keyType, hash) derived a second time.
CodecRepeat ==
    /\ codec.phase = "out"
    /\ codec' = [codec EXCEPT !.phase = "again",
                              !.again = Encode(codec.keyType, codec.hash)]
    /\ UNCHANGED <<openVars, storeVars, procVars, got, seq>>

----------------------------------------------------------------------------
(* Initial states *)

OpenFresh ==
    /\ initOnce = "fresh"
    /\ cache = NilKDB
    /\ dirs \in {{}, {Abs("data")}}
    /\ badger = [opens |-> 0, attempts |-> 0, options |-> ""]
    /\ call = [p \in Procs |-> NoCall]
    /\ ret = [p \in Procs |-> NoRet]
    /\ panicked = NoPanic

\* The state New("data", key, opts) leaves when its first open attempt succeeds.
OpenedKDB == [nil |-> FALSE, c |-> 1, isNew |-> TRUE,
              absPath |-> DbFile(Abs("data")), parentFolder |-> Abs("data"),
              keyLen |-> KeyLen]

Opened ==
    /\ initOnce = "done"
    /\ cache = OpenedKDB
    /\ dirs = {Abs("data")}
    /\ badger = [opens |-> 1, attempts |-> 1, options |-> "DefaultOptions"]
    /\ call = [p \in Procs |-> [NoCall EXCEPT !.calls = 1]]
    /\ ret = [p \in Procs |->
                 [op |-> "New", nil |-> FALSE, store |-> OpenedKDB, err |-> "",
                  live |-> TRUE, failures |-> 0, badKey |-> FALSE]]
    /\ panicked = NoPanic

StoreEmpty ==
    /\ db = <<>>
    /\ counters = <<>>
    /\ registry = {}
    /\ latest = <<>>

ProcsIdle ==
    /\ mu = NoProc
    /\ closed = FALSE
    /\ pc = [p \in Procs |-> "idle"]
    /\ local = [p \in Procs |-> NoLocal]
    /\ dirty = [p \in Procs |-> FALSE]

----------------------------------------------------------------------------
(* Specifications *)

InitCodec ==
    /\ codec \in {[NoCodec EXCEPT !.phase = "in", !.hashType = t, !.keyType = u,
                                  !.hash = h] :
                     t \in CodecHashTypes, u \in CodecHashTypes, h \in OriginalHashes}
    /\ Opened /\ StoreEmpty /\ ProcsIdle /\ got = NoResult /\ seq = NoSeq

NextCodec == CodecApply \/ CodecRepeat

SpecCodec == InitCodec /\ [][NextCodec]_vars

InitOpen ==
    /\ codec = NoCodec
    /\ OpenFresh /\ StoreEmpty /\ ProcsIdle /\ got = NoResult /\ seq = NoSeq

NextOpen ==
    \E p \in Procs :
        \/ \E dbFolder \in Folders, keyLen \in KeyLens, nopts \in {0, 1} :
               NewEnter(p, dbFolder, keyLen, nopts)
        \/ OnceEnter(p)
        \/ OpenAttempt(p)
        \/ NewReturn(p)
        \/ GetKDB(p)
        \/ CloseKDB(p)

SpecOpen == InitOpen /\ [][NextOpen]_vars

InitKV ==
    /\ codec = NoCodec
    /\ Opened /\ StoreEmpty /\ ProcsIdle /\ got = NoResult /\ seq = NoSeq

NextKV ==
    \/ \E h \in KVHashes, v \in Values, t \in KVHashTypes : Store("g1", h, v, t)
    \/ \E h \in KVHashes, t \in KVHashTypes : Get(h, t)
    \/ \E t \in KVHashTypes : Iterate(t)
    \/ \E l \in SearchLists, t \in KVHashTypes : Find(l, t)
    \/ \E x \in SumPrefixes, t \in KVHashTypes : Search(x, t)

SpecKV == InitKV /\ [][NextKV]_vars

InitSeq ==
    /\ codec = NoCodec
    /\ Opened /\ StoreEmpty /\ ProcsIdle /\ got = NoResult /\ seq = NoSeq

\* The consumer writes between its queries, not inside one.
NextSeq ==
    \/ \E h \in KVHashes, t \in RecountHashTypes :
           seq.phase = "idle" /\ Store("g1", h, "v1", t)
    \/ \E h \in KVHashes, t \in RecountHashTypes : SeqGet(h, t)
    \/ \E t \in RecountHashTypes : SeqIterate(t)
    \/ \E l \in SearchLists, t \in RecountHashTypes : SeqFind(l, t)
    \/ \E x \in SumPrefixes, t \in RecountHashTypes : SeqSearch(x, t)
    \/ SeqStep
    \/ SeqContinue
    \/ SeqStop
    \/ SeqFail
    \/ SeqTake

SpecSeq == InitSeq /\ [][NextSeq]_vars

\* A store opened with its total counter out of step with its records, the
\* case PerformRecount exists for (part_000:10-11), or with no counter yet.
OutOfStep == {<<>>, SetCounter(<<>>, totalHashesKey, 3)}

InitRecount ==
    /\ codec = NoCodec
    /\ Opened /\ ProcsIdle /\ got = NoResult /\ seq = NoSeq
    /\ db = <<>> /\ registry = {} /\ latest = <<>>
    /\ counters \in OutOfStep

\* Every goroutine other than p is between calls or holds a result.
OthersAtRest(p) == \A q \in Procs \ {p} : pc[q] \in {"idle", "done"}

\* The calls are made one after the other, with collaborator failures at
\* any step; records are written between calls.
NextRecount ==
    \E p \in Procs :
        \/ OthersAtRest(p) /\ PerformRecountStart(p)
        \/ \E t \in RecountHashTypes : OthersAtRest(p) /\ RecountHashTypeStart(p, t)
        \/ OthersAtRest(p) /\ RegistryFail(p)
        \/ ScanBegin(p)
        \/ ScanEnd(p)
        \/ ScanFail(p)
        \/ SetCountLock(p)
        \/ SetCountType(p)
        \/ SetCountTotal(p)
        \/ SetCountFail(p)
        \/ Return(p)
        \/ \E h \in KVHashes, t \in RecountHashTypes :
               (\A q \in Procs : pc[q] = "idle") /\ Store(p, h, "v1", t)

SpecRecount == InitRecount /\ [][NextRecount]_vars

\* The same calls on a store that starts empty with its counters in step.
InitSync ==
    /\ codec = NoCodec
    /\ Opened /\ StoreEmpty /\ ProcsIdle /\ got = NoResult /\ seq = NoSeq

SpecSync == InitSync /\ [][NextRecount]_vars

Init ==
    /\ codec = NoCodec
    /\ Opened /\ StoreEmpty /\ ProcsIdle /\ got = NoResult /\ seq = NoSeq

Next ==
    \E p \in Procs :
        \/ PerformRecountStart(p)
        \/ \E t \in RecountHashTypes : RecountHashTypeStart(p, t)
        \/ ScanBegin(p)
        \/ ScanEnd(p)
        \/ SetCountLock(p)
        \/ SetCountType(p)
        \/ SetCountTotal(p)
        \/ Return(p)
        \/ \E h \in KVHashes, t \in RecountHashTypes : Store(p, h, "v1", t)
        \/ Close(p)

Spec == Init /\ [][Next]_vars

----------------------------------------------------------------------------
(* Claims *)

\* The hash types the documentation names.
DocumentedHashTypes == {0, 100, 1400, 1700}

\* Every stored record's hash type is registered.
StoredTypesRegistered ==
    \A k \in DOMAIN db :
        \E t \in registry, h \in OriginalHashes : k = Encode(t, h)

\* C1: a successful PerformRecount that no write overlapped leaves every
\* registered type's counter equal to the number of stored records of
\* exactly that type, and the total counter equal to the number of stored
\* records.
C1_RecountCountsExactly ==
    \A p \in Procs :
        ( /\ pc[p] = "done"
          /\ local[p].op = "PerformRecount"
          /\ local[p].result = "ok"
          /\ ~dirty[p]
          /\ StoredTypesRegistered )
        => /\ \A t \in registry :
                  /\ hashTypeCountPrefix(t) \in DOMAIN counters
                  /\ Uint64(counters[hashTypeCountPrefix(t)])
                        = Cardinality(RecordsOfType(db, t, OriginalHashes))
           /\ totalHashesKey \in DOMAIN counters
           /\ Uint64(counters[totalHashesKey]) = Cardinality(DOMAIN db)

\* C2: the scan prefix of hash type t is a prefix of the canonical key of
\* (t', h) exactly when t = t'.
C2_TypePrefixSelectsOneType ==
    codec.phase \in {"out", "again"}
    => (codec.valid <=> codec.hashType = codec.keyType)

\* C3: New never panics, whatever its arguments.
C3_NewNeverPanics == panicked # PanicIndex

\* The New call goroutine p last entered had a key not 32 bytes long.
EnteredBadKey(p) ==
    IF call[p].pc = "idle" THEN ret[p].badKey ELSE call[p].keyLen # 32

\* C4: a New call whose key is not exactly 32 bytes long returns the
\* configuration error at once, and the step changes nothing else: not the
\* one-time initialisation, the cache, the directories or the collaborator.
C4_BadKeyRejectedFirst ==
    [][\A p \in Procs :
          (call'[p].calls = call[p].calls + 1 /\ EnteredBadKey(p)')
          => /\ call'[p].pc = "idle"
             /\ ret'[p].op = "New" /\ ret'[p].nil /\ ret'[p].err = ErrKey
             /\ UNCHANGED <<initOnce, cache, dirs, badger, closed, panicked>>]_vars

\* C4 witness: a goroutine whose earlier call was rejected for its key has
\* since opened the store with a valid key.
C4_Witness ==
    \E p \in Procs :
        /\ call[p].rejected
        /\ ret[p].op = "New" /\ ret[p].err = "" /\ ~ret[p].nil
        /\ ret[p].failures = 0 /\ badger.attempts = 1

\* C5: a New call makes at most 3 open attempts, and when all 3 fail it
\* returns no store and the open error wrapping the third attempt's failure.
C5_AtMostThreeAttempts ==
    \A p \in Procs :
        /\ call[p].i <= 3
        /\ ret[p].failures <= 3
        /\ (ret[p].op = "New" /\ ret[p].failures = 3)
           => /\ ret[p].nil
              /\ ret[p].err = "failed to open krkn database after 3 retries: "
                                 \o ErrAttempt(3)

\* C5 witness: a call has returned after three failed attempts.
C5_Witness ==
    \E p \in Procs :
        /\ ret[p].op = "New" /\ ret[p].failures = 3
        /\ ret[p].nil /\ ret[p].err = ErrOpen(ErrAttempt(3))
        /\ badger.attempts = 3 /\ badger.opens = 0

\* C6: the collaborator is opened at most once, and every New call that
\* returns without error returns the live handle of that open, also after
\* an earlier caller's open failed.
C6_FirstSuccessfulOpenWins ==
    /\ badger.opens <= 1
    /\ \A p \in Procs :
           (ret[p].op = "New" /\ ret[p].err = "")
           => ~ret[p].nil /\ ret[p].store = cache /\ ret[p].live

\* C7: the key-counting scan of a recount runs under KDB.mu, and the handle
\* is never closed while a scan is in progress.
C7_ScansHoldLock ==
    \A p \in Procs : pc[p] = "scanning" => (mu = p /\ ~closed)

\* C8: a point lookup of (h, t), t a documented hash type, returns the
\* value of the last Store of (h, t).
C8_RoundTrip ==
    ( /\ got.op = "get"
      /\ got.hashType \in DocumentedHashTypes
      /\ <<got.hashType, got.hash>> \in DOMAIN latest )
    => /\ got.found
       /\ got.value = latest[<<got.hashType, got.hash>>].value

\* C8 witness: a lookup returned the stored value while another record is
\* stored too.
C8_Witness ==
    /\ got.op = "get" /\ got.found
    /\ got.hashType \in DocumentedHashTypes
    /\ <<got.hashType, got.hash>> \in DOMAIN latest
    /\ got.value = latest[<<got.hashType, got.hash>>].value
    /\ Cardinality(DOMAIN db) > 1

\* C9: a point lookup of (h, t2) reports not-found when no record (h, t2)
\* was ever stored, also when (h, t1) is stored for another type t1.
C9_TypeIsolation ==
    (got.op = "get" /\ <<got.hashType, got.hash>> \notin DOMAIN latest)
    => ~got.found

\* C9 witness: a lookup of (h, t2) reported not-found while (h, t1) is stored.
C9_Witness ==
    /\ got.op = "get" /\ ~got.found
    /\ <<got.hashType, got.hash>> \notin DOMAIN latest
    /\ \E t1 \in KVHashTypes :
           t1 # got.hashType /\ <<t1, got.hash>> \in DOMAIN latest

\* (h, t) was stored with one value and then with another.
Overwritten(hashType, hash) ==
    /\ <<hashType, hash>> \in DOMAIN latest
    /\ latest[<<hashType, hash>>].prev # ""

Entries(list) == {list[i] : i \in 1..Len(list)}

\* The keys of the records a query yielded, in the order it yielded them.
KeysOf(out) == [i \in 1..Len(out) |-> out[i].key]

\* C11: a batch search over a search list and type t yields exactly the
\* stored records of type t whose original hash is in the list, each once,
\* in ascending key order with its stored value, whatever the order of the
\* list and however often an entry repeats.
C11_BatchSearchIntersection ==
    got.op = "find"
    => /\ KeysOf(got.out)
            = SortKeys(RecordsOfType(db, got.hashType, Entries(got.list)))
       /\ \A i \in 1..Len(got.out) : got.out[i].value = db[got.out[i].key]

\* C11 witness: a list with a repeated entry found its one stored record
\* of type 100 while the record of type 1000 with the same original hash,
\* which the scan visits too, is stored.
C11_Witness ==
    /\ got.op = "find" /\ got.list = <<"a", "b", "a">>
    /\ got.hashType = 100 /\ Len(got.out) = 1
    /\ got.out[1].key = Encode(100, "a")
    /\ Encode(1000, "a") \in DOMAIN db

C14_ReleasedOnEveryExit ==
    /\ seq.phase \in {"idle", "done"} => (seq.cursors = 0 /\ seq.txns = 0)
    /\ seq.phase \in {"open", "yielded"} => (seq.txns = 1 /\ seq.cursors <= 1)
    /\ seq.phase = "done" => seq.exit \in {"exhausted", "stopped", "error"}

\* C14 witness: a prefix search failed after its first item, with another
\* key still ahead of the cursor, and holds nothing open.
C14_Witness ==
    /\ seq.phase = "done" /\ seq.exit = "error" /\ seq.kind = "search"
    /\ Len(seq.out) = 1 /\ Len(seq.keys) = 2
    /\ seq.cursors = 0 /\ seq.txns = 0

\* C15: a type iteration has advanced its cursor at most once more than it
\* has handed out items and fetched one value per item; when the consumer
\* stops after k items the cursor has advanced k times, however many keys
\* lie ahead.
C15_EarlyTermination ==
    seq.kind = "iter"
    => /\ seq.advances <= Len(seq.out) + 1
       /\ seq.fetches = Len(seq.out)
       /\ seq.exit = "stopped" => seq.advances = Len(seq.out)

\* C15 witness: the consumer stopped after the first of two records.
C15_Witness ==
    /\ seq.kind = "iter" /\ seq.phase = "done" /\ seq.exit = "stopped"
    /\ Len(seq.out) = 1 /\ Len(seq.keys) = 2
    /\ seq.advances = 1 /\ seq.fetches = 1

\* The counter keys a PerformRecount with locals l writes when nothing
\* fails: the registered types' keys in registry order, then the total key.
PlannedWrites(l) ==
    [i \in 1..Len(l.hashTypes) |-> hashTypeCountPrefix(l.hashTypes[i])]
        \o <<totalHashesKey>>

\* Where a PerformRecount with locals l stands: its writes so far are a
\* beginning of the planned ones, and once it has returned they are all of
\* them on success, none when the registry could not be enumerated, and
\* those of the types before the failing one otherwise.
RecountProgress(l, at) ==
    /\ Len(l.written) <= Len(PlannedWrites(l))
    /\ l.written = SubSeq(PlannedWrites(l), 1, Len(l.written))
    /\ at = "done"
       => /\ l.result \in {"ok", "err:types", "err:count", "err:update", "err:total"}
          /\ l.result = "ok" <=> l.written = PlannedWrites(l)
          /\ l.result = "err:types" => l.written = <<>>
          /\ l.result \in {"err:count", "err:update"}
             => Len(l.written) = l.idx - 1 /\ l.idx <= Len(l.hashTypes)
          /\ l.result = "err:total" => Len(l.written) = Len(l.hashTypes)

\* C16: every step of a PerformRecount changes no counter but the one it
\* appends to its writes; the writes go in registry order with the total
\* last; a failure returns the error with the counters of the types before
\* the failing one written and every other counter as it was.
C16_RecountNotAtomic ==
    [][\A p \in Procs :
          (pc'[p] # pc[p] /\ local'[p].op = "PerformRecount")
          => LET l == local'[p]
                 before == IF local[p].op = "PerformRecount"
                           THEN Len(local[p].written) ELSE 0
                 new == {l.written[i] : i \in (before + 1)..Len(l.written)}
             IN  /\ RecountProgress(l, pc'[p])
                 /\ Len(l.written) <= before + 1
                 /\ DOMAIN counters' = DOMAIN counters \cup new
                 /\ \A k \in DOMAIN counters \ new : counters'[k] = counters[k]]_vars

\* C16 witness: a PerformRecount over two registered types returned the
\* error of the second type's counter write, having written the first
\* type's counter only.
C16_Witness ==
    \E p \in Procs :
        /\ pc[p] = "done" /\ local[p].op = "PerformRecount"
        /\ local[p].result = "err:update" /\ local[p].idx = 2
        /\ Len(local[p].hashTypes) = 2
        /\ local[p].written = <<hashTypeCountPrefix(local[p].hashTypes[1])>>

\* Goroutine p holds the result of a successful recount that ran after the
\* successful recount whose result goroutine q still holds: q's result
\* has seen p's writes, p's result has seen none.
RanAfter(p, q) ==
    /\ p # q
    /\ pc[p] = "done" /\ local[p].result = "ok" /\ ~dirty[p]
    /\ pc[q] = "done" /\ local[q].result = "ok" /\ dirty[q]

\* C17: a recount that runs after another with no record write in between
\* finds every counter the first run wrote already at the value it writes.
C17_RecountIdempotent ==
    \A p, q \in Procs :
        RanAfter(p, q)
        => \A i \in 1..Len(local[p].written) :
               (\E j \in 1..Len(local[q].written) :
                    local[q].written[j] = local[p].written[i])
               => local[p].prev[i] = Uint64(counters[local[p].written[i]])

\* C17 witness: a second PerformRecount over two stored records rewrote the
\* three counters of the first.
C17_Witness ==
    \E p, q \in Procs :
        /\ RanAfter(p, q)
        /\ local[p].op = "PerformRecount" /\ local[q].op = "PerformRecount"
        /\ Len(local[p].written) = 3 /\ local[q].written = local[p].written
        /\ Cardinality(DOMAIN db) = 2
        /\ local[p].prev[3] = Uint64(counters[totalHashesKey])

\* C18: with no registered hash type, a PerformRecount the collaborator
\* does not fail returns success having written the total counter, now 0,
\* and nothing else.
C18_EmptyRegistryZeroTotal ==
    \A p \in Procs :
        ( /\ pc[p] = "done" /\ local[p].op = "PerformRecount"
          /\ registry = {}
          /\ local[p].result \notin {"err:types", "err:total"} )
        => /\ local[p].result = "ok"
           /\ local[p].written = <<totalHashesKey>>
           /\ Uint64(counters[totalHashesKey]) = 0

\* C18 witness: the total counter held 3 before the recount set it to 0.
C18_Witness ==
    \E p \in Procs :
        /\ pc[p] = "done" /\ local[p].op = "PerformRecount" /\ registry = {}
        /\ local[p].result = "ok" /\ local[p].prev = <<3>>
        /\ Uint64(counters[totalHashesKey]) = 0

\* C19: a successful RecountHashType(t) has written the counter of t and no
\* other, and that counter equals the number of stored records of type t.
C19_RecountOneType ==
    \A p \in Procs :
        ( /\ pc[p] = "done" /\ local[p].op = "RecountHashType"
          /\ local[p].result = "ok" )
        => LET t == local[p].hashTypes[1]
           IN  /\ local[p].written = <<hashTypeCountPrefix(t)>>
               /\ ~dirty[p]
                  => Uint64(counters[hashTypeCountPrefix(t)])
                        = Cardinality(RecordsOfType(db, t, OriginalHashes))

\* The number of decimal digits of a hash type.
NumDigits(n) ==
    IF n < 10 THEN 1 ELSE IF n < 100 THEN 2 ELSE IF n < 1000 THEN 3 ELSE 4

\* The number a text of decimal digits reads as, -1 when a character is
\* no digit.
RECURSIVE ParseDecimal(_)
ParseDecimal(text) ==
    IF text = "" THEN 0
    ELSE LET c == SubSeq(text, Len(text), Len(text))
             rest == ParseDecimal(SubSeq(text, 1, Len(text) - 1))
         IN  IF c \in {"0", "1", "2", "3", "4", "5", "6", "7", "8", "9"} /\ rest >= 0
             THEN rest * 10 + Ord(c) - 48
             ELSE -1

HexChars == {"0", "1", "2", "3", "4", "5", "6", "7", "8", "9",
             "a", "b", "c", "d", "e", "f"}

RECURSIVE SumOfTypeCounters(_, _)
SumOfTypeCounters(cs, S) ==
    IF S = {} THEN 0
    ELSE LET t == CHOOSE x \in S : TRUE
         IN  CountOf(cs, hashTypeCountPrefix(t)) + SumOfTypeCounters(cs, S \ {t})

\* Goroutine p holds the success of the last operation to have run: no
\* write has followed its start and no other call is in progress.
LastReturnedOk(p) ==
    /\ pc[p] = "done" /\ local[p].result = "ok" /\ ~dirty[p]
    /\ OthersAtRest(p)

\* C21: on a store whose counters started in step, once the last of a
\* sequence of non-overlapping Store, RecountHashType and PerformRecount
\* calls has returned successfully, the total counter equals the sum of
\* the per-type counters.
C21_TotalIsSumOfTypes ==
    \A p \in Procs :
        LastReturnedOk(p)
        => CountOf(counters, totalHashesKey)
              = SumOfTypeCounters(counters, RecountHashTypes)

\* C22: every hash type with a stored record is in the registry, and a
\* PerformRecount that enumerated the registry visits every such type.
C22_RegistryComplete ==
    /\ StoredTypesRegistered
    /\ \A p \in Procs :
           ( /\ pc[p] # "idle" /\ local[p].op = "PerformRecount"
             /\ local[p].result # "err:types" )
           => \A k \in DOMAIN db :
                  \E i \in 1..Len(local[p].hashTypes), h \in OriginalHashes :
                      k = Encode(local[p].hashTypes[i], h)

\* C22 witness: records of two hash types are stored, both types are
\* registered, and a PerformRecount has visited both.
C22_Witness ==
    \E p \in Procs :
        /\ pc[p] = "done" /\ local[p].op = "PerformRecount"
        /\ local[p].result = "ok"
        /\ local[p].hashTypes = <<100, 1000>>
        /\ registry = {100, 1000}
        /\ RecordsOfType(db, 100, OriginalHashes) # {}
        /\ Cardinality(DOMAIN db) = 2

\* C23: the retry loop stops at its first success. The pass that opens the
\* collaborator is attempt k after k-1 failures and leaves the call with no
\* error and the cache assigned; once opened, the collaborator sees no
\* further attempt; and the call returns the opened store with a nil error.
C23_StopsAtFirstSuccess ==
    [][/\ badger.opens > 0 => badger' = badger
       /\ \A p \in Procs :
              /\ ( /\ call[p].pc = "open" /\ call'[p].pc = "after"
                   /\ badger'.opens = badger.opens + 1 )
                 => /\ call[p].i \in 0..(maxRetries - 1)
                    /\ badger'.attempts = call[p].i + 1
                    /\ call'[p].i = call[p].i
                    /\ call'[p].err = ""
                    /\ ~cache'.nil /\ cache'.c = 1
              /\ ( /\ call[p].pc = "after" /\ call'[p].pc = "idle"
                   /\ call[p].err = "" /\ badger.opens > 0 )
                 => /\ ret'[p].op = "New" /\ ret'[p].err = ""
                    /\ ~ret'[p].nil /\ ret'[p].store = cache
                    /\ ret'[p].failures = call[p].i]_vars

\* C23 witness: a call has returned the opened store and a nil error after
\* its third attempt, the first two having failed.
C23_Witness ==
    \E p \in Procs :
        /\ ret[p].op = "New" /\ ret[p].err = "" /\ ~ret[p].nil
        /\ ret[p].failures = 2
        /\ badger.attempts = 3 /\ badger.opens = 1
        /\ ret[p].store = cache

\* C24: a New call returns a store exactly when it returns a nil error.
C24_StoreIffNilError ==
    \A p \in Procs :
        ret[p].op = "New" => (~ret[p].nil <=> ret[p].err = "")

\* C25: the store a successful New call returns has as ParentFolder the
\* absolute path of the dbFolder passed to that call.
C25_StoreOfThisCall ==
    [][\A p \in Procs :
          ( /\ call[p].pc = "after" /\ call'[p].pc = "idle"
            /\ ret'[p].err = "" /\ ~ret'[p].nil )
          => ret'[p].store.parentFolder = Abs(call[p].dbFolder)]_vars

\* C26: a Get call, which is one step and so made after every Close that
\* has returned, hands back no store whose collaborator handle is closed.
C26_HandleAlwaysLive ==
    \A p \in Procs :
        (ret[p].op = "Get" /\ ~ret[p].nil) => ret[p].live

\* C27: a New call that passes an Options argument configures the
\* collaborator from it; a call that passes none goes on, without a panic,
\* with DefaultOptions.
C27_OptionsSelection ==
    [][\A p \in Procs :
          /\ ( /\ call[p].pc = "open" /\ call'[p].pc = "after"
               /\ badger'.opens = badger.opens + 1 )
             => badger'.options =
                    IF call[p].nopts > 0 THEN "opts[0]" ELSE "DefaultOptions"
          /\ ( /\ call[p].pc = "idle" /\ call'[p].pc # "idle"
               /\ call'[p].nopts = 0 )
             => /\ call'[p].pc = "once"
                /\ call'[p].dbOptions = "DefaultOptions"
                /\ panicked' = NoPanic]_vars

====
